---- MODULE Spec2Model ----
(***************************************************************************)
(* Server Monitor API (server-monitor-api/main.py).                        *)
(*                                                                         *)
(* One GET /api/metrics request is handled at a time.  The handler is      *)
(* modelled statement group by statement group: every call into the        *)
(* operating system (psutil, os, socket) is one step whose outcome is      *)
(* chosen by the environment: a value, or an exception of some kind.       *)
(*                                                                         *)
(* Python strings that the code inspects (the secret, the credential) are  *)
(* tuples of one-character strings.  Optional[T] is a tuple of length 0    *)
(* (None) or 1 (the value).                                                *)
(***************************************************************************)
EXTENDS Integers, Sequences, FiniteSets, TLC

VARIABLES
    MONITOR_TOKEN,   \* module global, read once at import (line 18)
    pc,              \* position of the handler
    request,         \* the HTTP request being served
    authorization,   \* the handler's parameter of that name (line 92)
    response,        \* status code and body handed to the transport layer
    cpu_percent, load_avg, vm, net_io, uptime_seconds,   \* locals of metrics()
    parts, idx,      \* the list iterated by the for loop and the position in it
    seen_mounts, disk_items,
    auth_result,     \* history: outcome of _require_auth for this request
    calls            \* history: the OS queries issued for this request, in order

scalars == <<cpu_percent, load_avg, vm, net_io, uptime_seconds>>
disks   == <<parts, idx, seen_mounts, disk_items>>
vars    == <<MONITOR_TOKEN, pc, request, authorization, response,
             cpu_percent, load_avg, vm, net_io, uptime_seconds,
             parts, idx, seen_mounts, disk_items, auth_result, calls>>

----------------------------------------------------------------------------
(* Optional values *)
None      == <<>>
Some(x)   == <<x>>
IsNone(o) == o = <<>>
Val(o)    == o[1]

(* Python truthiness of an Optional[str]: None and "" are falsy *)
Truthy(o) == ~IsNone(o) /\ Val(o) # <<>>

----------------------------------------------------------------------------
(* Bound of the model: the longest partition list the OS reports *)
MaxParts == 2

(* Strings *)
Str_Bearer  == <<"B","e","a","r","e","r">>
Str_bearer  == <<"b","e","a","r","e","r">>
Str_Basic   == <<"B","a","s","i","c">>
Str_abc123  == <<"a","b","c","1","2","3">>
Str_ABC123  == <<"A","B","C","1","2","3">>
Str_wrong   == <<"w","r","o","n","g">>
SP          == <<" ">>
TAB         == <<"\t">>

BearerPrefix == Str_Bearer \o SP          \* the literal "Bearer " of lines 27, 29

Whitespace == {" ", "\t", "\n", "\r"}     \* what str.strip() removes

(* str.startswith *)
startswith(s, prefix) ==
    /\ Len(s) >= Len(prefix)
    /\ SubSeq(s, 1, Len(prefix)) = prefix

(* str.removeprefix *)
removeprefix(s, prefix) ==
    IF startswith(s, prefix) THEN SubSeq(s, Len(prefix) + 1, Len(s)) ELSE s

RECURSIVE lstrip(_)
lstrip(s) == IF s # <<>> /\ Head(s) \in Whitespace THEN lstrip(Tail(s)) ELSE s

RECURSIVE rstrip(_)
rstrip(s) ==
    IF s # <<>> /\ s[Len(s)] \in Whitespace THEN rstrip(SubSeq(s, 1, Len(s) - 1)) ELSE s

(* Variant of strip: only leading whitespace is removed (lstrip for strip) *)
strip_left_only(s) == lstrip(s)

(* str.strip *)
strip(s) == rstrip(lstrip(s))

(* Exceptions: the class that decides which except clause catches, and str(e) *)
Exc(type, msg) == [type |-> type, msg |-> msg]

(* Variant of _require_auth: the check is disabled only for an unset secret
   (`is None` for `not`), not for an empty one *)
require_auth_none_only(token, auth) ==
    IF IsNone(token) THEN None
    ELSE IF ~Truthy(auth) \/ ~startswith(Val(auth), BearerPrefix)
         THEN Some(Exc("PermissionError", "Missing Authorization Bearer token"))
    ELSE IF strip(removeprefix(Val(auth), BearerPrefix)) # Val(token)
         THEN Some(Exc("PermissionError", "Invalid token"))
    ELSE None

(* _require_auth: None when it returns, the exception when it raises *)
require_auth(token, auth) ==
    IF ~Truthy(token) THEN None
    ELSE IF ~Truthy(auth) \/ ~startswith(Val(auth), BearerPrefix)
         THEN Some(Exc("PermissionError", "Missing Authorization Bearer token"))
    ELSE IF strip(removeprefix(Val(auth), BearerPrefix)) # Val(token)
         THEN Some(Exc("PermissionError", "Invalid token"))
    ELSE None

----------------------------------------------------------------------------
(* Data shapes *)
DiskUsageItem(mount, du) ==
    [mount |-> mount, total_bytes |-> du.total, used_bytes |-> du.used,
     free_bytes |-> du.free, percent |-> du.percent]

NetIO(net) == [bytes_sent |-> net.bytes_sent, bytes_recv |-> net.bytes_recv]

Metrics(cpu, load, mem, disk, net, uptime, hostname) ==
    [cpu_percent |-> cpu, load_avg |-> <<load[1], load[2], load[3]>>,
     mem_percent |-> mem.percent, mem_total_bytes |-> mem.total,
     mem_used_bytes |-> mem.used, mem_available_bytes |-> mem.available,
     disk |-> disk, net_io |-> net, uptime_seconds |-> uptime,
     hostname |-> hostname]

ApiResponse(ok, ts, metrics, error) ==
    [ok |-> ok, ts |-> ts, metrics |-> metrics, error |-> error]

(* time.strftime("%Y-%m-%dT%H:%M:%SZ", time.gmtime()) *)
strftime == "2026-01-01T00:00:00Z"

(* The route's response before the handler touches it: default status 200 *)
FreshResponse == [status_code |-> 200, body |-> None]

----------------------------------------------------------------------------
(* The environment: configuration, requests, and what the OS may answer *)

Secrets == {None, Some(<<>>), Some(Str_abc123), Some(SP \o Str_abc123)}

AuthValues ==
    {None, Some(<<>>)} \cup
    {Some(s) : s \in
       {BearerPrefix \o Str_abc123,
        BearerPrefix \o Str_wrong,
        Str_Basic \o SP \o Str_abc123,
        Str_bearer \o SP \o Str_abc123,
        Str_Bearer \o Str_abc123,
        Str_Bearer \o TAB \o Str_abc123,
        BearerPrefix \o SP \o Str_abc123 \o SP,
        BearerPrefix \o TAB \o Str_abc123 \o TAB \o SP,
        BearerPrefix \o Str_ABC123,
        BearerPrefix \o <<"a","b","c">> \o SP \o <<"1","2","3">>,
        BearerPrefix \o Str_abc123 \o <<"4">>,
        BearerPrefix,
        SP \o BearerPrefix \o Str_abc123,
        Str_abc123}}

(* A request: the Authorization header and the query parameter
   "authorization", each optional *)
Requests ==
    [header : {None, Some(BearerPrefix \o Str_abc123)},
     query  : AuthValues]

Mounts      == {"/", "/data"}
FsTypes     == {"ext4", "tmpfs", "devtmpfs", "squashfs"}
Partitions  == [mountpoint : Mounts, fstype : FsTypes]
PartLists   == UNION {[1..n -> Partitions] : n \in 0..MaxParts}

ErrKinds    == {"PermissionError", "OSError"}
Outcomes    == {"ok"} \cup ErrKinds

(* The exception an OS query raises, by kind *)
OSExc(kind) ==
    IF kind = "PermissionError"
    THEN Exc("PermissionError", "[Errno 13] Permission denied")
    ELSE Exc("OSError", "[Errno 5] Input/output error")

(* psutil.disk_usage(m) when it succeeds *)
sdiskusage(m) == [total |-> 100, used |-> 40, free |-> 60, percent |-> 40]

Call(site, fn, arg, out) == [site |-> site, fn |-> fn, arg |-> arg, out |-> out]

----------------------------------------------------------------------------
(* The parameter `authorization: Optional[str] = None` of metrics() declares
   no Header(): the framework binds it from the query string *)
BindAuthorization(req) == req.query

(* Variant of StatusFor: the second except clause forgets the status code *)
StatusFor_unset(e) == IF e.type = "PermissionError" THEN 401 ELSE 200

(* Which except clause of metrics() catches e, and the status it sets *)
StatusFor(e) == IF e.type = "PermissionError" THEN 401 ELSE 503

(* Variant of the skip list: squashfs forgotten *)
PSEUDO_FSTYPES_short == {"tmpfs", "devtmpfs"}

(* The skip list of line 118 *)
PSEUDO_FSTYPES == {"tmpfs", "devtmpfs", "squashfs"}

(* except PermissionError / except Exception of metrics() *)
Raise(e) ==
    /\ response' = [status_code |-> StatusFor(e),
                    body |-> Some(ApiResponse(FALSE, strftime, None, Some(e.msg)))]
    /\ pc' = "done"

----------------------------------------------------------------------------
Init ==
    /\ MONITOR_TOKEN \in Secrets
    /\ pc = "idle"
    /\ request = None
    /\ authorization = None
    /\ response = FreshResponse
    /\ cpu_percent = None /\ load_avg = None /\ vm = None
    /\ net_io = None /\ uptime_seconds = None
    /\ parts = <<>> /\ idx = 0 /\ seen_mounts = {} /\ disk_items = <<>>
    /\ auth_result = "pending"
    /\ calls = <<>>

(* A request for GET /api/metrics arrives and the framework calls metrics() *)
Receive ==
    /\ pc = "idle"
    /\ \E req \in Requests :
         /\ request' = Some(req)
         /\ authorization' = BindAuthorization(req)
    /\ pc' = "auth"
    /\ UNCHANGED <<MONITOR_TOKEN, response, scalars, disks, auth_result, calls>>

(* Variant of RequireAuth: the failure is recorded but collection goes on *)
RequireAuth_goes_on ==
    /\ pc = "auth"
    /\ auth_result' = IF IsNone(require_auth(MONITOR_TOKEN, authorization))
                      THEN "ok" ELSE "denied"
    /\ pc' = "cpu"
    /\ UNCHANGED <<MONITOR_TOKEN, request, authorization, response, scalars, disks, calls>>

(* line 94 *)
RequireAuth ==
    /\ pc = "auth"
    /\ LET r == require_auth(MONITOR_TOKEN, authorization) IN
         IF IsNone(r)
         THEN /\ auth_result' = "ok"
              /\ pc' = "cpu"
              /\ UNCHANGED response
         ELSE /\ auth_result' = "denied"
              /\ Raise(Val(r))
    /\ UNCHANGED <<MONITOR_TOKEN, request, authorization, scalars, disks, calls>>

(* line 97 *)
CpuPercent ==
    /\ pc = "cpu"
    /\ \E out \in Outcomes :
         /\ calls' = Append(calls, Call(97, "cpu_percent", "", out))
         /\ IF out = "ok"
            THEN /\ cpu_percent' = Some(12)
                 /\ pc' = "load"
                 /\ UNCHANGED response
            ELSE /\ Raise(OSExc(out))
                 /\ UNCHANGED cpu_percent
    /\ UNCHANGED <<MONITOR_TOKEN, request, authorization, load_avg, vm, net_io,
                   uptime_seconds, disks, auth_result>>

(* lines 100-103: any failure of os.getloadavg is replaced by zeros *)
LoadAvg ==
    /\ pc = "load"
    /\ \E out \in Outcomes :
         /\ calls' = Append(calls, Call(101, "getloadavg", "", out))
         /\ load_avg' = IF out = "ok" THEN Some(<<1, 2, 3>>) ELSE Some(<<0, 0, 0>>)
    /\ pc' = "mem"
    /\ UNCHANGED <<MONITOR_TOKEN, request, authorization, response, cpu_percent, vm,
                   net_io, uptime_seconds, disks, auth_result>>

(* lines 105-109 *)
VirtualMemory ==
    /\ pc = "mem"
    /\ \E out \in Outcomes :
         /\ calls' = Append(calls, Call(105, "virtual_memory", "", out))
         /\ IF out = "ok"
            THEN /\ vm' = Some([percent |-> 50, total |-> 8, used |-> 4, available |-> 4])
                 /\ disk_items' = <<>>
                 /\ seen_mounts' = {}
                 /\ pc' = "parts"
                 /\ UNCHANGED response
            ELSE /\ Raise(OSExc(out))
                 /\ UNCHANGED <<vm, disk_items, seen_mounts>>
    /\ UNCHANGED <<MONITOR_TOKEN, request, authorization, cpu_percent, load_avg, net_io,
                   uptime_seconds, parts, idx, auth_result>>

(* line 111: the iterable of the for loop *)
DiskPartitions ==
    /\ pc = "parts"
    /\ \E out \in Outcomes :
         /\ calls' = Append(calls, Call(111, "disk_partitions", "", out))
         /\ IF out = "ok"
            THEN /\ parts' \in PartLists
                 /\ idx' = 1
                 /\ pc' = "loop"
                 /\ UNCHANGED response
            ELSE /\ Raise(OSExc(out))
                 /\ UNCHANGED <<parts, idx>>
    /\ UNCHANGED <<MONITOR_TOKEN, request, authorization, scalars, seen_mounts,
                   disk_items, auth_result>>

(* Variant of LoopSeen: the `continue` of line 114 is missing, a mount already
   seen is reported again *)
LoopSeen_no_continue ==
    /\ pc = "loop"
    /\ idx <= Len(parts)
    /\ parts[idx].mountpoint \in seen_mounts
    /\ disk_items' = IF parts[idx].fstype \in PSEUDO_FSTYPES THEN disk_items
                     ELSE Append(disk_items, DiskUsageItem(parts[idx].mountpoint,
                                                           sdiskusage(parts[idx].mountpoint)))
    /\ idx' = idx + 1
    /\ UNCHANGED <<MONITOR_TOKEN, pc, request, authorization, response, scalars, parts,
                   seen_mounts, auth_result, calls>>

(* lines 112-114: a mount already seen *)
LoopSeen ==
    /\ pc = "loop"
    /\ idx <= Len(parts)
    /\ parts[idx].mountpoint \in seen_mounts
    /\ idx' = idx + 1
    /\ UNCHANGED <<MONITOR_TOKEN, pc, request, authorization, response, scalars, parts,
                   seen_mounts, disk_items, auth_result, calls>>

(* lines 112-119: a pseudo filesystem *)
LoopPseudo ==
    /\ pc = "loop"
    /\ idx <= Len(parts)
    /\ parts[idx].mountpoint \notin seen_mounts
    /\ seen_mounts' = seen_mounts \cup {parts[idx].mountpoint}
    /\ parts[idx].fstype \in PSEUDO_FSTYPES
    /\ idx' = idx + 1
    /\ UNCHANGED <<MONITOR_TOKEN, pc, request, authorization, response, scalars, parts,
                   disk_items, auth_result, calls>>

(* Variant of LoopUsage: no `except PermissionError: continue` around the query *)
LoopUsage_no_except ==
    /\ pc = "loop"
    /\ idx <= Len(parts)
    /\ LET m == parts[idx].mountpoint IN
         /\ m \notin seen_mounts
         /\ seen_mounts' = seen_mounts \cup {m}
         /\ parts[idx].fstype \notin PSEUDO_FSTYPES
         /\ \E out \in Outcomes :
              /\ calls' = Append(calls, Call(122, "disk_usage", m, out))
              /\ IF out = "ok"
                 THEN /\ disk_items' = Append(disk_items, DiskUsageItem(m, sdiskusage(m)))
                      /\ idx' = idx + 1
                      /\ UNCHANGED <<pc, response>>
                 ELSE /\ Raise(OSExc(out))
                      /\ UNCHANGED <<idx, disk_items>>
    /\ UNCHANGED <<MONITOR_TOKEN, request, authorization, scalars, parts, auth_result>>

(* lines 112-134: the usage of a real mount is queried *)
LoopUsage ==
    /\ pc = "loop"
    /\ idx <= Len(parts)
    /\ LET m == parts[idx].mountpoint IN
         /\ m \notin seen_mounts
         /\ seen_mounts' = seen_mounts \cup {m}
         /\ parts[idx].fstype \notin PSEUDO_FSTYPES
         /\ \E out \in Outcomes :
              /\ calls' = Append(calls, Call(122, "disk_usage", m, out))
              /\ CASE out = "ok" ->
                        /\ disk_items' = Append(disk_items, DiskUsageItem(m, sdiskusage(m)))
                        /\ idx' = idx + 1
                        /\ UNCHANGED <<pc, response>>
                   [] out = "PermissionError" ->
                        /\ idx' = idx + 1
                        /\ UNCHANGED <<pc, response, disk_items>>
                   [] OTHER ->
                        /\ Raise(OSExc(out))
                        /\ UNCHANGED <<idx, disk_items>>
    /\ UNCHANGED <<MONITOR_TOKEN, request, authorization, scalars, parts, auth_result>>

(* Variant of LoopExit: the fallback of lines 137-147 is missing *)
LoopExit_no_fallback ==
    /\ pc = "loop"
    /\ idx > Len(parts)
    /\ pc' = "net"
    /\ UNCHANGED <<MONITOR_TOKEN, request, authorization, response, scalars, disks,
                   auth_result, calls>>

(* the for loop is exhausted; line 137 *)
LoopExit ==
    /\ pc = "loop"
    /\ idx > Len(parts)
    /\ pc' = IF disk_items = <<>> THEN "fallback" ELSE "net"
    /\ UNCHANGED <<MONITOR_TOKEN, request, authorization, response, scalars, disks,
                   auth_result, calls>>

(* lines 138-147 *)
Fallback ==
    /\ pc = "fallback"
    /\ \E out \in Outcomes :
         /\ calls' = Append(calls, Call(138, "disk_usage", "/", out))
         /\ IF out = "ok"
            THEN /\ disk_items' = Append(disk_items, DiskUsageItem("/", sdiskusage("/")))
                 /\ pc' = "net"
                 /\ UNCHANGED response
            ELSE /\ Raise(OSExc(out))
                 /\ UNCHANGED disk_items
    /\ UNCHANGED <<MONITOR_TOKEN, request, authorization, scalars, parts, idx,
                   seen_mounts, auth_result>>

(* lines 149-150 *)
NetIoCounters ==
    /\ pc = "net"
    /\ \E out \in Outcomes :
         /\ calls' = Append(calls, Call(149, "net_io_counters", "", out))
         /\ IF out = "ok"
            THEN /\ net_io' = Some(NetIO([bytes_sent |-> 7, bytes_recv |-> 9]))
                 /\ pc' = "boot"
                 /\ UNCHANGED response
            ELSE /\ Raise(OSExc(out))
                 /\ UNCHANGED net_io
    /\ UNCHANGED <<MONITOR_TOKEN, request, authorization, cpu_percent, load_avg, vm,
                   uptime_seconds, disks, auth_result>>

(* line 152 *)
BootTime ==
    /\ pc = "boot"
    /\ \E out \in Outcomes :
         /\ calls' = Append(calls, Call(152, "boot_time", "", out))
         /\ IF out = "ok"
            THEN /\ uptime_seconds' = Some(160 - 100)
                 /\ pc' = "host"
                 /\ UNCHANGED response
            ELSE /\ Raise(OSExc(out))
                 /\ UNCHANGED uptime_seconds
    /\ UNCHANGED <<MONITOR_TOKEN, request, authorization, cpu_percent, load_avg, vm,
                   net_io, disks, auth_result>>

(* lines 153-172 *)
Hostname ==
    /\ pc = "host"
    /\ \E out \in Outcomes :
         /\ calls' = Append(calls, Call(153, "gethostname", "", out))
         /\ IF out = "ok"
            THEN /\ response' =
                      [response EXCEPT !.body = Some(ApiResponse(TRUE, strftime,
                          Some(Metrics(Val(cpu_percent), Val(load_avg), Val(vm), disk_items,
                                       Val(net_io), Val(uptime_seconds), "host-1")),
                          None))]
                 /\ pc' = "done"
            ELSE Raise(OSExc(out))
    /\ UNCHANGED <<MONITOR_TOKEN, request, authorization, scalars, disks, auth_result>>

(* The response is serialized and sent; nothing of the request survives it *)
Respond ==
    /\ pc = "done"
    /\ pc' = "idle"
    /\ request' = None
    /\ authorization' = None
    /\ response' = FreshResponse
    /\ cpu_percent' = None /\ load_avg' = None /\ vm' = None
    /\ net_io' = None /\ uptime_seconds' = None
    /\ parts' = <<>> /\ idx' = 0 /\ seen_mounts' = {} /\ disk_items' = <<>>
    /\ auth_result' = "pending"
    /\ calls' = <<>>
    /\ UNCHANGED MONITOR_TOKEN

Next ==
    \/ Receive
    \/ RequireAuth
    \/ CpuPercent
    \/ LoadAvg
    \/ VirtualMemory
    \/ DiskPartitions
    \/ LoopSeen
    \/ LoopPseudo
    \/ LoopUsage
    \/ LoopExit
    \/ Fallback
    \/ NetIoCounters
    \/ BootTime
    \/ Hostname
    \/ Respond

Spec == Init /\ [][Next]_vars

----------------------------------------------------------------------------
(* Vocabulary of the properties *)

Done        == pc = "done"
Body        == Val(response.body)
Succeeded   == Done /\ Body.ok
Disk        == Val(Body.metrics).disk

(* Number of entries of a disk sequence that report mount path p *)
CountMount(seq, p) == Cardinality({k \in 1..Len(seq) : seq[k].mount = p})

(* Position in parts of the first partition listed with mount path p; 0 if none *)
FirstPart(p) ==
    IF \E i \in 1..Len(parts) : parts[i].mountpoint = p
    THEN CHOOSE i \in 1..Len(parts) :
            /\ parts[i].mountpoint = p
            /\ \A j \in 1..(i - 1) : parts[j].mountpoint # p
    ELSE 0

FallbackUsed == \E i \in 1..Len(calls) : calls[i].site = 138

(* A per-mount usage query that was denied access *)
DeniedAt(i) == calls[i].site = 122 /\ calls[i].out = "PermissionError"

(* A failed query the code absorbs: the load average, a denied per-mount query *)
Absorbed(i) == calls[i].site = 101 \/ DeniedAt(i)

(* t is s without its leading and trailing whitespace *)
IsTrimOf(t, s) ==
    /\ t # <<>> => (t[1] \notin Whitespace /\ t[Len(t)] \notin Whitespace)
    /\ \E i \in 0..Len(s), j \in 0..Len(s) :
         /\ i + Len(t) + j = Len(s)
         /\ \A k \in 1..i : s[k] \in Whitespace
         /\ \A k \in 1..j : s[i + Len(t) + k] \in Whitespace
         /\ \A k \in 1..Len(t) : s[i + k] = t[k]

(* The credential a holds the secret: present, "Bearer " first, the rest
   the secret once trimmed *)
Accepts(secret, a) ==
    /\ ~IsNone(a)
    /\ Len(Val(a)) >= 7
    /\ \A k \in 1..7 : Val(a)[k] = <<"B","e","a","r","e","r"," ">>[k]
    /\ IsTrimOf(secret, [k \in 1..(Len(Val(a)) - 7) |-> Val(a)[k + 7]])

----------------------------------------------------------------------------
(* C1: with a non-empty secret configured, _require_auth succeeds exactly
   when the provided value is present, begins with "Bearer " and its
   remainder, trimmed, equals the secret; in every other case it raises and
   the request is answered 401 with ok false. *)
C1_BearerCheck ==
    (Truthy(MONITOR_TOKEN) /\ auth_result # "pending") =>
        /\ (auth_result = "ok") <=> Accepts(Val(MONITOR_TOKEN), authorization)
        /\ auth_result = "denied" =>
              /\ Done
              /\ response.status_code = 401
              /\ ~Body.ok

(* the check has passed on a credential that needed trimming *)
C1_Witness ==
    /\ Truthy(MONITOR_TOKEN)
    /\ auth_result = "ok"
    /\ authorization = Some(BearerPrefix \o TAB \o Val(MONITOR_TOKEN) \o TAB \o SP)

(* C2: with no secret configured (unset or empty), _require_auth succeeds
   for every provided value; it never raises. *)
C2_OpenWhenUnconfigured ==
    (~Truthy(MONITOR_TOKEN) /\ pc \notin {"idle", "auth"}) => auth_result = "ok"

(* the check has passed, with an empty secret, on a wrong-scheme credential *)
C2_Witness ==
    /\ MONITOR_TOKEN = Some(<<>>)
    /\ authorization = Some(Str_Basic \o SP \o Str_abc123)
    /\ auth_result = "ok"
    /\ pc = "cpu"

(* C8: the credential check runs before any OS query: a request whose check
   failed issues none and is answered 401; queries are issued only after
   the check succeeded, and collection starts at most once per request. *)
C8_AuthBeforeQueries ==
    /\ auth_result = "denied" =>
          (calls = <<>> /\ Done /\ response.status_code = 401)
    /\ calls # <<>> => auth_result = "ok"
    /\ pc \in {"idle", "auth"} => calls = <<>>
    /\ Cardinality({i \in 1..Len(calls) : calls[i].site = 97}) <= 1
    /\ calls # <<>> => calls[1].site = 97

(* a request whose check failed has been answered *)
C8_Witness ==
    /\ Done
    /\ auth_result = "denied"
    /\ authorization = Some(BearerPrefix \o Str_wrong)

(* C5: every response of GET /api/metrics is one variant: ok, 200, metrics
   present, error absent; or not ok, 401 or 503, error present, metrics
   absent; ts is present in both. *)
C5_OneVariant ==
    Done =>
        /\ ~IsNone(response.body)
        /\ Body.ts # ""
        /\ \/ /\ Body.ok
              /\ response.status_code = 200
              /\ ~IsNone(Body.metrics)
              /\ IsNone(Body.error)
           \/ /\ ~Body.ok
              /\ response.status_code \in {401, 503}
              /\ ~IsNone(Body.error)
              /\ IsNone(Body.metrics)

(* a collection failure has been answered 503 *)
C5_Witness ==
    /\ Done
    /\ ~Body.ok
    /\ response.status_code = 503
    /\ calls # <<>>

(* C3: once the credential check has passed, every failure of an OS
   metrics query that is not absorbed is answered 503 with ok false,
   whatever the kind of the error; 401 is produced only when the
   credential check itself failed. *)
C3_QueryFailureIs503 ==
    Done =>
        /\ (/\ auth_result = "ok"
            /\ calls[Len(calls)].out # "ok"
            /\ ~Absorbed(Len(calls)))
           => (response.status_code = 503 /\ ~Body.ok)
        /\ response.status_code = 401 => auth_result = "denied"

(* C4: the credential is taken from the Authorization header: with the
   secret "abc123", a request whose Authorization header is
   "Bearer abc123", all OS queries succeeding, is answered 200 with
   ok true. *)
C4_HeaderCredential ==
    (/\ Done
     /\ MONITOR_TOKEN = Some(Str_abc123)
     /\ Val(request).header = Some(BearerPrefix \o Str_abc123)
     /\ \A i \in 1..Len(calls) : calls[i].out = "ok")
    => (response.status_code = 200 /\ Body.ok)

(* C6: the disk sequence of a success response is never empty, whatever
   partitions the OS lists and whichever usage queries are denied; when
   the fallback ran it is the single entry for "/". *)
C6_DiskNonEmpty ==
    Succeeded =>
        /\ Len(Disk) >= 1
        /\ FallbackUsed => (Len(Disk) = 1 /\ Disk[1].mount = "/")

(* a success whose listed partitions gave no entry: one pseudo, one denied *)
C6_Witness ==
    /\ Succeeded
    /\ Len(parts) = 2
    /\ parts[1].fstype \in {"tmpfs", "devtmpfs", "squashfs"}
    /\ \E i \in 1..Len(calls) : DeniedAt(i)
    /\ FallbackUsed

(* C7 as stated: when two partitions report the same mount path, the disk
   sequence of the response has exactly one entry for that path. *)
C7_ExactlyOnePerDuplicate ==
    Succeeded =>
        \A i, j \in 1..Len(parts) :
            (i < j /\ parts[i].mountpoint = parts[j].mountpoint)
            => CountMount(Disk, parts[i].mountpoint) = 1

(* C7 as amended: when two partitions report the same mount path, the disk
   sequence has at most one entry for that path, and exactly one when the
   first partition listed for the path is not a pseudo filesystem and its
   usage query succeeded. *)
C7_AtMostOnePerDuplicate ==
    Succeeded =>
        \A i, j \in 1..Len(parts) :
            (i < j /\ parts[i].mountpoint = parts[j].mountpoint)
            => LET p == parts[i].mountpoint
                   f == FirstPart(p)
               IN  /\ CountMount(Disk, p) <= 1
                   /\ (/\ parts[f].fstype \notin {"tmpfs", "devtmpfs", "squashfs"}
                       /\ \E c \in 1..Len(calls) :
                            /\ calls[c].site = 122
                            /\ calls[c].arg = p
                            /\ calls[c].out = "ok")
                      => CountMount(Disk, p) = 1

(* two real partitions with one mount path, reported once *)
C7_Witness ==
    /\ Succeeded
    /\ Len(parts) = 2
    /\ parts[1].mountpoint = "/data" /\ parts[2].mountpoint = "/data"
    /\ parts[1].fstype = "ext4" /\ parts[2].fstype = "ext4"
    /\ CountMount(Disk, "/data") = 1

(* C9: a denied per-mount usage query is absorbed: the mount is skipped,
   the enumeration goes on to the remaining mounts, and the request does
   not fail because of it. *)
C9_DeniedMountSkipped ==
    /\ \A i \in 1..Len(calls) :
         DeniedAt(i) =>
            \* the request did not end on the denied query
            /\ ~(Done /\ i = Len(calls))
            \* no entry was added for the mount, the root fallback aside
            /\ FallbackUsed \/ CountMount(disk_items, calls[i].arg) = 0
    \* past the loop, every real mount listed has been queried
    /\ pc \in {"fallback", "net", "boot", "host"} =>
         \A k \in 1..Len(parts) :
            (k = FirstPart(parts[k].mountpoint)
             /\ parts[k].fstype \notin {"tmpfs", "devtmpfs", "squashfs"})
            => \E c \in 1..Len(calls) :
                  calls[c].site = 122 /\ calls[c].arg = parts[k].mountpoint
    \* with no failure but absorbed ones, the request succeeds
    /\ (Done /\ calls # <<>>
        /\ \A i \in 1..Len(calls) : calls[i].out # "ok" => Absorbed(i))
       => (Body.ok /\ response.status_code = 200)

(* a success that reports the mount listed after a denied one *)
C9_Witness ==
    /\ Succeeded
    /\ Len(parts) = 2
    /\ \E i \in 1..Len(calls) :
         /\ DeniedAt(i)
         /\ calls[i].arg = parts[1].mountpoint
         /\ calls[i + 1].site = 122
         /\ calls[i + 1].arg = parts[2].mountpoint
         /\ calls[i + 1].out = "ok"
    /\ Len(Disk) = 1
    /\ Disk[1].mount = parts[2].mountpoint

(* C10 as stated: no disk entry of a success response reports a mount path
   whose partition was listed as tmpfs, devtmpfs or squashfs. *)
C10_NoPseudoMountReported ==
    Succeeded =>
        \A k \in 1..Len(Disk) :
            ~\E i \in 1..Len(parts) :
                /\ parts[i].mountpoint = Disk[k].mount
                /\ parts[i].fstype \in {"tmpfs", "devtmpfs", "squashfs"}

(* C10 as amended: every disk entry of a success response is either the
   fallback entry for "/", which stands alone, or reports a mount path whose
   first listed partition is not tmpfs, devtmpfs or squashfs. *)
C10_NoPseudoPartitionReported ==
    Succeeded =>
        \A k \in 1..Len(Disk) :
            \/ FallbackUsed /\ Len(Disk) = 1 /\ Disk[k].mount = "/"
            \/ /\ FirstPart(Disk[k].mount) # 0
               /\ parts[FirstPart(Disk[k].mount)].fstype
                     \notin {"tmpfs", "devtmpfs", "squashfs"}

(* a squashfs mount listed before a real one is left out of the response *)
C10_Witness ==
    /\ Succeeded
    /\ Len(parts) = 2
    /\ parts[1].fstype = "squashfs" /\ parts[1].mountpoint = "/data"
    /\ parts[2].fstype = "ext4" /\ parts[2].mountpoint = "/"
    /\ Len(Disk) = 1
    /\ Disk[1].mount = "/"
    /\ ~FallbackUsed

====
